---- MODULE Spec2Model ----
(***************************************************************************)
(* State-machine model of src/orcl_impexp.py: the interactive Oracle       *)
(* schema export tool.  The main thread walks run_export_workflow; each    *)
(* Spinner runs _run on its own thread, interleaved with the main thread.  *)
(*                                                                         *)
(* Representation of Python values:                                        *)
(*   None              the empty tuple <<>>                                *)
(*   an optional value Box(v) = <<v>> when present, None when absent       *)
(*   a str read from input()   a tuple of one-character strings            *)
(*   a generated file name     a non-empty tuple of its components         *)
(***************************************************************************)
EXTENDS Integers, Sequences, FiniteSets

VARIABLES
    pc,               \* position of the main thread
    now,              \* wall clock, in ticks
    console,          \* messages printed by the main thread, in order
    sp,               \* the Spinner objects, by id
    spinLine,         \* TRUE while spinner text is on the console line
    pending,          \* what a finally block resumes: return value or exception
    schemas,          \* run_export_workflow: result of get_schemas
    selected_schema,  \* run_export_workflow: result of select_schema
    config_filename,  \* run_export_workflow
    dump_filename,    \* run_export_workflow
    dump_file,        \* run_export_workflow: result of run_export
    log_file,         \* run_export_workflow: result of run_export
    sel,              \* locals of select_schema
    cf,               \* locals of create_impdp_details_file
    re,               \* locals of run_export
    metadata_files,   \* metadata files on disk: set of [name, content]
    log_lines,        \* lines written to the local log mirror (None: no file)
    raised,           \* exception that left run_export_workflow, or None
    trace             \* workflow steps entered so far, in order

vars == <<pc, now, console, sp, spinLine, pending, schemas, selected_schema,
          config_filename, dump_filename, dump_file, log_file, sel, cf, re,
          metadata_files, log_lines, raised, trace>>

\* ---------------------------------------------------------------- bounds
MaxLineLen == 2      \* longest line typed at the schema prompt
MaxAttempts == 2     \* prompts answered in one select_schema call
MaxClock == 2        \* last tick the clock reaches
TicksPerSecond == 2  \* clock ticks in one second of the timestamp format
MaxOutput == 2       \* lines the export utility prints
MaxExitCode == 1     \* largest exit code of the export utility

\* ------------------------------------------------------- Python values
None == <<>>

Box(v) == <<v>>

Unbox(b) == b[1]

AbsentPair == <<None, None>>

Msg(tag, arg) == [tag |-> tag, arg |-> arg]

Printed(tag) == \E i \in 1..Len(console) : console[i].tag = tag

CountPrinted(tag) == Cardinality({i \in 1..Len(console) : console[i].tag = tag})

\* ------------------------------------------------------------ inputs
\* Candidate schema names, in the ORDER BY username order of the query.
SchemaNames == <<"HR", "OE">>

RECURSIVE SortedLists(_)
SortedLists(n) ==
    IF n = 0 THEN {<<>>}
    ELSE LET shorter == SortedLists(n - 1)
         IN  shorter \cup {Append(l, SchemaNames[n]) : l \in shorter}

\* Every result of "SELECT username ... ORDER BY username".
QueryResults == SortedLists(Len(SchemaNames))

Chars == {"0", "1", "2", "3", "4", "-", "+", " ", "_", "a"}

Digits == {"0", "1", "2", "3", "4"}

InputLines == UNION {[1..n -> Chars] : n \in 0..MaxLineLen}

ExportLines == {"ORA-39000", "Processing"}

ExitCodes == 0..MaxExitCode

Tablespaces == {"USERS"}

DirPaths == {"/u01/dpdump"}

SpinnerIds == {1, 2}

\* the glyphs of itertools.cycle(r'-\|/')
GlyphCount == 4

\* ------------------------------------------------------------ int(str)
DigitValue(c) ==
    CASE c = "0" -> 0 [] c = "1" -> 1 [] c = "2" -> 2 [] c = "3" -> 3
      [] c = "4" -> 4

RECURSIVE LStrip(_)
LStrip(s) == IF s # <<>> /\ Head(s) = " " THEN LStrip(Tail(s)) ELSE s

RECURSIVE RStrip(_)
RStrip(s) ==
    IF s # <<>> /\ s[Len(s)] = " " THEN RStrip(SubSeq(s, 1, Len(s) - 1)) ELSE s

Strip(s) == RStrip(LStrip(s))

\* Digit groups separated by single underscores, digits at both ends.
IsDigitString(s) ==
    /\ s # <<>>
    /\ \A i \in 1..Len(s) : s[i] \in Digits \cup {"_"}
    /\ s[1] \in Digits
    /\ s[Len(s)] \in Digits
    /\ \A i \in 1..(Len(s) - 1) : ~(s[i] = "_" /\ s[i + 1] = "_")

RECURSIVE DecimalValue(_, _)
DecimalValue(s, acc) ==
    IF s = <<>> THEN acc
    ELSE IF Head(s) = "_" THEN DecimalValue(Tail(s), acc)
    ELSE DecimalValue(Tail(s), 10 * acc + DigitValue(Head(s)))

HasSign(s) == s # <<>> /\ Head(s) \in {"+", "-"}

Unsigned(s) == IF HasSign(s) THEN Tail(s) ELSE s

\* int(line) raises ValueError exactly when this is FALSE.
IsInt(line) == IsDigitString(Unsigned(Strip(line)))

ParseInt(line) ==
    LET s == Strip(line)
        v == DecimalValue(Unsigned(s), 0)
    IN  IF HasSign(s) /\ Head(s) = "-" THEN 0 - v ELSE v

\* list[i] with Python's 0-based index, negative indices counting from the end.
PyIndex(list, i) == IF i < 0 THEN list[Len(list) + i + 1] ELSE list[i + 1]

\* --------------------------------------------------------- file names
\* strftime("%Y%m%d_%H%M%S"): the clock truncated to whole seconds.
Timestamp(clock) == clock \div TicksPerSecond

DumpFilename(schema, timestamp) == <<schema, timestamp, "dmp">>

\* the metadata file name formatted from a second reading of the clock
ConfigFilenameFreshClock(schema, timestamp) ==
    <<"impdp_details", schema, Timestamp(now), "json">>

ConfigFilename(schema, timestamp) == <<"impdp_details", schema, timestamp, "json">>

\* os.path.splitext(dump_filename)[0] + ".log"
LogFilenameExpdp(dump) == <<dump[1], dump[2], "log">>

\* os.path.join("log", name)
LogFilenameLocal(name) == <<"log">> \o name

\* ---------------------------------------------------------------- state
\* Spinner.__init__; idx is the position of itertools.cycle, tpc the
\* position of the thread inside _run; drawn and erased record whether a
\* glyph was ever printed and whether stop() erased the line.
NewSpinner ==
    [busy |-> FALSE, spinner_visible |-> FALSE, thread |-> "None",
     idx |-> 0, tpc |-> "test", drawn |-> FALSE, erased |-> FALSE]

NoSelectLocals == [line |-> None, attempts |-> 0]

\* clock_reads counts the calls of datetime.now(); user_fetch and dir_fetch
\* record what each fetchone() returned.
NoCreateLocals ==
    [user_details |-> None, dir_path |-> None, timestamp |-> None,
     dump_filename |-> None, config_filename |-> None, impdp_details |-> None,
     clock_reads |-> 0, user_fetch |-> "not_run", dir_fetch |-> "not_run"]

NoExportLocals ==
    [log_filename_expdp |-> None, log_filename_local |-> None,
     process |-> "None", returncode |-> None, line |-> None, eof |-> FALSE,
     waited |-> FALSE, nread |-> 0]

NoPending == [kind |-> "none", value |-> None]

Init ==
    /\ pc = "wf_start"
    /\ now = 0
    /\ console = <<>>
    /\ sp = [s \in SpinnerIds |-> NewSpinner]
    /\ spinLine = FALSE
    /\ pending = NoPending
    /\ schemas = None
    /\ selected_schema = None
    /\ config_filename = None
    /\ dump_filename = None
    /\ dump_file = None
    /\ log_file = None
    /\ sel = NoSelectLocals
    /\ cf = NoCreateLocals
    /\ re = NoExportLocals
    /\ metadata_files = {}
    /\ log_lines = None
    /\ raised = None
    /\ trace = <<>>

Emit(out, tag, arg) == Append(out, Msg(tag, arg))

\* ------------------------------------------------------------- clock
Tick ==
    /\ now < MaxClock
    /\ now' = now + 1
    /\ UNCHANGED <<pc, console, sp, spinLine, pending, schemas,
                   selected_schema, config_filename, dump_filename, dump_file,
                   log_file, sel, cf, re, metadata_files, log_lines, raised,
                   trace>>

\* ----------------------------------------------------------- Spinner
mainVars == <<pc, now, console, pending, schemas, selected_schema,
              config_filename, dump_filename, dump_file, log_file, sel, cf,
              re, metadata_files, log_lines, raised, trace>>

ThreadAlive(s) == sp[s].thread = "started"

\* Spinner.start
SpinnerStarted(spinner) ==
    [spinner EXCEPT !.busy = TRUE, !.thread = "started", !.tpc = "test"]

\* Spinner._run: the test of "while self.busy"
SpinnerTest(s) ==
    /\ ThreadAlive(s)
    /\ sp[s].tpc = "test"
    /\ sp' = [sp EXCEPT ![s].tpc = IF sp[s].busy THEN "print" ELSE "test",
                        ![s].thread = IF sp[s].busy THEN "started" ELSE "finished"]
    /\ UNCHANGED <<spinLine>>
    /\ UNCHANGED mainVars

\* Spinner._run: print of the message and the next glyph
SpinnerPrint(s) ==
    /\ ThreadAlive(s)
    /\ sp[s].tpc = "print"
    /\ sp' = [sp EXCEPT ![s].idx = (sp[s].idx + 1) % GlyphCount,
                        ![s].drawn = TRUE,
                        ![s].tpc = "visible"]
    /\ spinLine' = TRUE
    /\ UNCHANGED mainVars

\* Spinner._run: self.spinner_visible = True
SpinnerSetVisible(s) ==
    /\ ThreadAlive(s)
    /\ sp[s].tpc = "visible"
    /\ sp' = [sp EXCEPT ![s].spinner_visible = TRUE, ![s].tpc = "sleep"]
    /\ UNCHANGED <<spinLine>>
    /\ UNCHANGED mainVars

\* Spinner._run: time.sleep(self.delay) returns
SpinnerSleep(s) ==
    /\ ThreadAlive(s)
    /\ sp[s].tpc = "sleep"
    /\ sp' = [sp EXCEPT ![s].tpc = "test"]
    /\ UNCHANGED <<spinLine>>
    /\ UNCHANGED mainVars

\* Spinner.stop: self.busy = False
SpinnerSignalled(spinner) == [spinner EXCEPT !.busy = FALSE]

\* stop() without the join
JoinReturnsAtOnce(spinner) == TRUE

\* Spinner.stop: thread.join() returns once the thread has finished
\* (there is nothing to join when self.thread is None).
JoinReturns(spinner) == spinner.thread # "started"

\* Spinner.stop: the line is erased when spinner_visible is set
SpinnerErased(spinner) ==
    IF spinner.spinner_visible THEN [spinner EXCEPT !.erased = TRUE] ELSE spinner

\* The local variable spinner goes out of scope at the return: once its
\* thread has finished, the Spinner and its cycle iterator are freed.
SpinnerReleased(spinner) ==
    IF spinner.thread = "started" THEN spinner ELSE [spinner EXCEPT !.idx = 0]

\* The spinner that the function at this position owns.
SpinnerOf(position) ==
    IF position \in {"gs_start", "gs_query", "gs_stop", "gs_join", "gs_erase"}
    THEN 1 ELSE 2

\* Spinner.stop, first statement
StopSignal ==
    /\ pc \in {"gs_stop", "cf_stop"}
    /\ sp' = [sp EXCEPT ![SpinnerOf(pc)] = SpinnerSignalled(sp[SpinnerOf(pc)])]
    /\ pc' = IF pc = "gs_stop" THEN "gs_join" ELSE "cf_join"
    /\ UNCHANGED <<now, console, spinLine, pending, schemas, selected_schema,
                   config_filename, dump_filename, dump_file, log_file, sel,
                   cf, re, metadata_files, log_lines, raised, trace>>

\* Spinner.stop, thread.join()
StopJoin ==
    /\ pc \in {"gs_join", "cf_join"}
    /\ JoinReturns(sp[SpinnerOf(pc)])
    /\ pc' = IF pc = "gs_join" THEN "gs_erase" ELSE "cf_erase"
    /\ UNCHANGED <<now, console, sp, spinLine, pending, schemas,
                   selected_schema, config_filename, dump_filename, dump_file,
                   log_file, sel, cf, re, metadata_files, log_lines, raised,
                   trace>>

\* -------------------------------------------------- get_db_credentials
GetDbCredentials ==
    /\ pc = "wf_start"
    /\ console' = Emit(Emit(console, "banner", None), "credentials_prompt", None)
    /\ trace' = Append(trace, "credentials")
    /\ pc' = "gs_start"
    /\ UNCHANGED <<now, sp, spinLine, pending, schemas, selected_schema,
                   config_filename, dump_filename, dump_file, log_file, sel,
                   cf, re, metadata_files, log_lines, raised>>

\* --------------------------------------------------------- get_schemas
GetSchemasStart ==
    /\ pc = "gs_start"
    /\ sp' = [sp EXCEPT ![1] = SpinnerStarted(NewSpinner)]
    /\ trace' = Append(trace, "list_schemas")
    /\ pc' = "gs_query"
    /\ UNCHANGED <<now, console, spinLine, pending, schemas, selected_schema,
                   config_filename, dump_filename, dump_file, log_file, sel,
                   cf, re, metadata_files, log_lines, raised>>

\* connect, execute and fetchall: the rows, or oracledb.Error
GetSchemasQuery ==
    /\ pc = "gs_query"
    /\ \/ \E rows \in QueryResults :
            /\ pending' = [kind |-> "return", value |-> Box(rows)]
            /\ UNCHANGED console
       \/ /\ pending' = [kind |-> "return", value |-> None]
          /\ console' = Emit(console, "error_fetching_schemas", None)
    /\ pc' = "gs_stop"
    /\ UNCHANGED <<now, sp, spinLine, schemas, selected_schema,
                   config_filename, dump_filename, dump_file, log_file, sel,
                   cf, re, metadata_files, log_lines, raised, trace>>

\* the rest of the finally block, then the return
GetSchemasFinish ==
    /\ pc = "gs_erase"
    /\ sp' = [sp EXCEPT ![1] = SpinnerReleased(SpinnerErased(sp[1]))]
    /\ spinLine' = IF sp[1].spinner_visible THEN FALSE ELSE spinLine
    /\ console' = Emit(console, "completed_in", None)
    /\ schemas' = pending.value
    /\ pending' = NoPending
    /\ pc' = "wf_schemas"
    /\ UNCHANGED <<now, selected_schema, config_filename, dump_filename,
                   dump_file, log_file, sel, cf, re, metadata_files,
                   log_lines, raised, trace>>

\* ------------------------------------------- run_export_workflow, part 1
\* the test written as "schemas is None"
NoSchemasOnlyNone(result) == result = None

\* "not schemas": None and the empty list are both falsy
NoSchemas(result) == result = None \/ Unbox(result) = <<>>

WorkflowCheckSchemas ==
    /\ pc = "wf_schemas"
    /\ IF NoSchemas(schemas)
       THEN /\ console' = Emit(console, "could_not_fetch_schemas", None)
            /\ pc' = "done"
       ELSE /\ console' = console
            /\ pc' = "sel_menu"
    /\ UNCHANGED <<now, sp, spinLine, pending, schemas, selected_schema,
                   config_filename, dump_filename, dump_file, log_file, sel,
                   cf, re, metadata_files, log_lines, raised, trace>>

\* -------------------------------------------------------- select_schema
SelectSchemaMenu ==
    /\ pc = "sel_menu"
    /\ console' = Emit(console, "schema_menu", Unbox(schemas))
    /\ sel' = NoSelectLocals
    /\ trace' = Append(trace, "select")
    /\ pc' = "sel_input"
    /\ UNCHANGED <<now, sp, spinLine, pending, schemas, selected_schema,
                   config_filename, dump_filename, dump_file, log_file, cf,
                   re, metadata_files, log_lines, raised>>

\* input("Enter the number of the schema: "): a line, or EOFError at end of input
SelectSchemaInput ==
    /\ pc = "sel_input"
    /\ sel.attempts < MaxAttempts
    /\ \/ \E line \in InputLines :
            /\ sel' = [sel EXCEPT !.line = Box(line), !.attempts = @ + 1]
            /\ pc' = "sel_parse"
            /\ UNCHANGED raised
       \/ /\ raised' = Box("EOFError")
          /\ pc' = "crashed"
          /\ UNCHANGED sel
    /\ UNCHANGED <<now, console, sp, spinLine, pending, schemas,
                   selected_schema, config_filename, dump_filename, dump_file,
                   log_file, cf, re, metadata_files, log_lines, trace>>

\* the range test with its lower bound off by one
InRangeFromZero(choice, count) == 0 <= choice /\ choice <= count

\* 1 <= choice <= len(schemas)
InRange(choice, count) == 1 <= choice /\ choice <= count

\* int(...), the range test, and either the return (followed by the
\* orchestrator's "You have selected" line) or the error message
SelectSchemaParse ==
    /\ pc = "sel_parse"
    /\ LET line == Unbox(sel.line)
           list == Unbox(schemas)
       IN  IF ~IsInt(line)
           THEN /\ console' = Emit(console, "invalid_input", None)
                /\ sel' = [sel EXCEPT !.line = None]
                /\ pc' = "sel_input"
                /\ UNCHANGED selected_schema
           ELSE IF InRange(ParseInt(line), Len(list))
           THEN /\ selected_schema' = Box(PyIndex(list, ParseInt(line) - 1))
                /\ console' = Emit(console, "you_have_selected",
                                   PyIndex(list, ParseInt(line) - 1))
                /\ sel' = NoSelectLocals
                /\ pc' = "cf_start"
           ELSE /\ console' = Emit(console, "invalid_number", None)
                /\ sel' = [sel EXCEPT !.line = None]
                /\ pc' = "sel_input"
                /\ UNCHANGED selected_schema
    /\ UNCHANGED <<now, sp, spinLine, pending, schemas, config_filename,
                   dump_filename, dump_file, log_file, cf, re, metadata_files,
                   log_lines, raised, trace>>

\* -------------------------------------------- create_impdp_details_file
CreateStart ==
    /\ pc = "cf_start"
    /\ console' = Emit(console, "creating_details", Unbox(selected_schema))
    /\ sp' = [sp EXCEPT ![2] = SpinnerStarted(NewSpinner)]
    /\ cf' = NoCreateLocals
    /\ trace' = Append(trace, "record_metadata")
    /\ pc' = "cf_connect"
    /\ UNCHANGED <<now, spinLine, pending, schemas, selected_schema,
                   config_filename, dump_filename, dump_file, log_file, sel,
                   re, metadata_files, log_lines, raised>>

\* except oracledb.Error: message, return None, None
CreateDbError ==
    /\ console' = Emit(console, "error_creating_details", None)
    /\ pending' = [kind |-> "return", value |-> AbsentPair]
    /\ pc' = "cf_stop"

\* oracledb.connect and connection.cursor
CreateConnect ==
    /\ pc = "cf_connect"
    /\ \/ /\ pc' = "cf_user"
          /\ UNCHANGED <<console, pending>>
       \/ CreateDbError
    /\ UNCHANGED <<now, sp, spinLine, schemas, selected_schema,
                   config_filename, dump_filename, dump_file, log_file, sel,
                   cf, re, metadata_files, log_lines, raised, trace>>

\* "if not user_details"
SchemaNotFound(user_details) == user_details = None

\* the dba_users lookup and its test
CreateQueryUser ==
    /\ pc = "cf_user"
    /\ \/ /\ CreateDbError
          /\ UNCHANGED cf
       \/ \E row \in {None} \cup
                     {Box(<<Unbox(selected_schema), t>>) : t \in Tablespaces} :
            /\ cf' = [cf EXCEPT !.user_details = row,
                  !.user_fetch = IF row = None THEN "no_row" ELSE "row"]
            /\ IF SchemaNotFound(row)
               THEN /\ console' = Emit(console, "schema_not_found", None)
                    /\ pending' = [kind |-> "return", value |-> AbsentPair]
                    /\ pc' = "cf_stop"
               ELSE /\ pc' = "cf_dir"
                    /\ UNCHANGED <<console, pending>>
    /\ UNCHANGED <<now, sp, spinLine, schemas, selected_schema,
                   config_filename, dump_filename, dump_file, log_file, sel,
                   re, metadata_files, log_lines, raised, trace>>

\* the directory test repeating the test of user_details
DirNotFoundTestsUser(dir_path) == cf.user_details = None

\* "if not dir_path"
DirNotFound(dir_path) == dir_path = None

\* the dba_directories lookup and its test
CreateQueryDir ==
    /\ pc = "cf_dir"
    /\ \/ /\ CreateDbError
          /\ UNCHANGED cf
       \/ \E row \in {None} \cup {Box(<<d>>) : d \in DirPaths} :
            /\ cf' = [cf EXCEPT !.dir_path = row,
                  !.dir_fetch = IF row = None THEN "no_row" ELSE "row"]
            /\ IF DirNotFound(row)
               THEN /\ console' = Emit(console, "data_pump_dir_not_found", None)
                    /\ pending' = [kind |-> "return", value |-> AbsentPair]
                    /\ pc' = "cf_stop"
               ELSE /\ pc' = "cf_stamp"
                    /\ UNCHANGED <<console, pending>>
    /\ UNCHANGED <<now, sp, spinLine, schemas, selected_schema,
                   config_filename, dump_filename, dump_file, log_file, sel,
                   re, metadata_files, log_lines, raised, trace>>

\* timestamp = datetime.now().strftime(...)
CreateTimestamp ==
    /\ pc = "cf_stamp"
    /\ cf' = [cf EXCEPT !.timestamp = Box(Timestamp(now)), !.clock_reads = @ + 1]
    /\ pc' = "cf_names"
    /\ UNCHANGED <<now, console, sp, spinLine, pending, schemas,
                   selected_schema, config_filename, dump_filename, dump_file,
                   log_file, sel, re, metadata_files, log_lines, raised, trace>>

ImpdpDetails(user_details, dir_path, dump) ==
    [schema_name |-> user_details[1], default_tablespace |-> user_details[2],
     data_pump_dir |-> dir_path[1], dump_file |-> dump]

\* the two file names and the impdp_details dict; subscripting None is a
\* TypeError, which no except clause of the function catches
CreateNames ==
    /\ pc = "cf_names"
    /\ IF cf.user_details = None \/ cf.dir_path = None
       THEN /\ pending' = [kind |-> "raise", value |-> "TypeError"]
            /\ pc' = "cf_stop"
            /\ UNCHANGED cf
       ELSE /\ cf' = [cf EXCEPT
                  !.dump_filename =
                      DumpFilename(Unbox(selected_schema), Unbox(cf.timestamp)),
                  !.config_filename =
                      ConfigFilename(Unbox(selected_schema), Unbox(cf.timestamp)),
                  !.impdp_details =
                      Box(ImpdpDetails(Unbox(cf.user_details), Unbox(cf.dir_path),
                          DumpFilename(Unbox(selected_schema), Unbox(cf.timestamp))))]
            /\ pc' = "cf_open"
            /\ UNCHANGED pending
    /\ UNCHANGED <<now, console, sp, spinLine, schemas, selected_schema,
                   config_filename, dump_filename, dump_file, log_file, sel,
                   re, metadata_files, log_lines, raised, trace>>

MetadataFile(name, state, data) == [name |-> name, state |-> state, data |-> data]

\* open(config_filename, 'w') creates or truncates the file, or raises OSError
CreateOpen ==
    /\ pc = "cf_open"
    /\ \/ /\ metadata_files' =
                {f \in metadata_files : f.name # cf.config_filename} \cup
                {MetadataFile(cf.config_filename, "empty", Unbox(cf.impdp_details))}
          /\ pc' = "cf_write"
          /\ UNCHANGED pending
       \/ /\ pending' = [kind |-> "raise", value |-> "OSError"]
          /\ pc' = "cf_stop"
          /\ UNCHANGED metadata_files
    /\ UNCHANGED <<now, console, sp, spinLine, schemas, selected_schema,
                   config_filename, dump_filename, dump_file, log_file, sel,
                   cf, re, log_lines, raised, trace>>

\* json.dump and the close of the file, then the success message and return;
\* or OSError with the file left partly written
CreateWrite ==
    /\ pc = "cf_write"
    /\ \/ /\ metadata_files' =
                {f \in metadata_files : f.name # cf.config_filename} \cup
                {MetadataFile(cf.config_filename, "complete", Unbox(cf.impdp_details))}
          /\ console' = Emit(console, "created_details", cf.config_filename)
          /\ pending' = [kind |-> "return",
                         value |-> <<cf.config_filename, cf.dump_filename>>]
       \/ /\ metadata_files' =
                {f \in metadata_files : f.name # cf.config_filename} \cup
                {MetadataFile(cf.config_filename, "partial", Unbox(cf.impdp_details))}
          /\ pending' = [kind |-> "raise", value |-> "OSError"]
          /\ UNCHANGED console
    /\ pc' = "cf_stop"
    /\ UNCHANGED <<now, sp, spinLine, schemas, selected_schema,
                   config_filename, dump_filename, dump_file, log_file, sel,
                   cf, re, log_lines, raised, trace>>

\* the rest of the finally block, then the return or the propagating exception
CreateFinish ==
    /\ pc = "cf_erase"
    /\ sp' = [sp EXCEPT ![2] = SpinnerReleased(SpinnerErased(sp[2]))]
    /\ spinLine' = IF sp[2].spinner_visible THEN FALSE ELSE spinLine
    /\ console' = Emit(console, "completed_in", None)
    /\ IF pending.kind = "return"
       THEN /\ config_filename' = pending.value[1]
            /\ dump_filename' = pending.value[2]
            /\ pc' = "wf_config"
            /\ UNCHANGED raised
       ELSE /\ raised' = Box(pending.value)
            /\ pc' = "crashed"
            /\ UNCHANGED <<config_filename, dump_filename>>
    /\ pending' = NoPending
    /\ UNCHANGED <<now, schemas, selected_schema, dump_file, log_file, sel,
                   cf, re, metadata_files, log_lines, trace>>

\* ------------------------------------------- run_export_workflow, part 2
\* "not config_filename"
MetadataAbsent(name) == name = None

WorkflowCheckConfig ==
    /\ pc = "wf_config"
    /\ IF MetadataAbsent(config_filename)
       THEN /\ console' = Emit(console, "could_not_create_details", None)
            /\ pc' = "done"
       ELSE /\ console' = console
            /\ pc' = "re_start"
    /\ UNCHANGED <<now, sp, spinLine, pending, schemas, selected_schema,
                   config_filename, dump_filename, dump_file, log_file, sel,
                   cf, re, metadata_files, log_lines, raised, trace>>

\* ----------------------------------------------------------- run_export
\* Lines 147-170: the start message, the log names, the log directory and
\* the command echo.  None of it is inside the try statement, so an
\* exception raised here leaves run_export without running its finally.
RunExportStart ==
    /\ pc = "re_start"
    /\ trace' = Append(trace, "export")
    /\ IF dump_filename = None
       THEN /\ raised' = Box("TypeError")
            /\ pc' = "crashed"
            /\ console' = Emit(console, "starting_export", Unbox(selected_schema))
            /\ UNCHANGED re
       ELSE \E exists \in BOOLEAN, created \in BOOLEAN :
            IF exists \/ created
            THEN /\ re' = [NoExportLocals EXCEPT
                       !.log_filename_expdp = LogFilenameExpdp(dump_filename),
                       !.log_filename_local =
                           LogFilenameLocal(LogFilenameExpdp(dump_filename))]
                 /\ console' = Emit(Emit(console, "starting_export",
                                         Unbox(selected_schema)),
                                    "generated_command", dump_filename)
                 /\ pc' = "re_popen"
                 /\ UNCHANGED raised
            ELSE /\ raised' = Box("OSError")
                 /\ pc' = "crashed"
                 /\ console' = Emit(console, "starting_export",
                                    Unbox(selected_schema))
                 /\ UNCHANGED re
    /\ UNCHANGED <<now, sp, spinLine, pending, schemas, selected_schema,
                   config_filename, dump_filename, dump_file, log_file, sel,
                   cf, metadata_files, log_lines>>

\* except FileNotFoundError
ExportNotFound ==
    /\ console' = Emit(console, "expdp_not_found", None)
    /\ pending' = [kind |-> "return", value |-> AbsentPair]
    /\ pc' = "re_finally"

\* except Exception
ExportUnexpected ==
    /\ console' = Emit(console, "unexpected_error", None)
    /\ pending' = [kind |-> "return", value |-> AbsentPair]
    /\ pc' = "re_finally"

\* subprocess.Popen(...), then the log header
RunExportLaunch ==
    /\ pc = "re_popen"
    /\ \/ /\ re' = [re EXCEPT !.process = "running"]
          /\ console' = Emit(console, "expdp_log_header", None)
          /\ pc' = "re_open"
          /\ UNCHANGED pending
       \/ /\ ExportNotFound
          /\ UNCHANGED re
       \/ /\ ExportUnexpected
          /\ UNCHANGED re
    /\ UNCHANGED <<now, sp, spinLine, schemas, selected_schema,
                   config_filename, dump_filename, dump_file, log_file, sel,
                   cf, metadata_files, log_lines, raised, trace>>

\* open(log_filename_local, 'w'): FileNotFoundError (the log directory has
\* gone) reaches the first except clause, any other OSError the second
RunExportOpenLog ==
    /\ pc = "re_open"
    /\ \/ /\ log_lines' = Box(<<>>)
          /\ pc' = "re_read"
          /\ UNCHANGED <<console, pending>>
       \/ /\ ExportNotFound
          /\ UNCHANGED log_lines
       \/ /\ ExportUnexpected
          /\ UNCHANGED log_lines
    /\ UNCHANGED <<now, sp, spinLine, schemas, selected_schema,
                   config_filename, dump_filename, dump_file, log_file, sel,
                   cf, re, metadata_files, raised, trace>>

\* line = process.stdout.readline(): a line, '' at end of stream, or an error
RunExportRead ==
    /\ pc = "re_read"
    /\ \/ /\ re.nread < MaxOutput
          /\ \E line \in ExportLines :
                re' = [re EXCEPT !.line = Box(line), !.nread = @ + 1]
          /\ pc' = "re_print"
          /\ UNCHANGED <<console, pending>>
       \/ /\ re' = [re EXCEPT !.line = None, !.eof = TRUE]
          /\ pc' = "re_wait"
          /\ UNCHANGED <<console, pending>>
       \/ /\ ExportUnexpected
          /\ UNCHANGED re
    /\ UNCHANGED <<now, sp, spinLine, schemas, selected_schema,
                   config_filename, dump_filename, dump_file, log_file, sel,
                   cf, metadata_files, log_lines, raised, trace>>

\* print(line, end='')
RunExportPrintLine ==
    /\ pc = "re_print"
    /\ console' = Emit(console, "expdp_line", Unbox(re.line))
    /\ pc' = "re_write"
    /\ UNCHANGED <<now, sp, spinLine, pending, schemas, selected_schema,
                   config_filename, dump_filename, dump_file, log_file, sel,
                   cf, re, metadata_files, log_lines, raised, trace>>

\* what log_file.write(line) does to the lines of the file
LogWrite(lines, line) == Append(lines, line)

\* log_file.write(line), or OSError
RunExportWriteLine ==
    /\ pc = "re_write"
    /\ \/ /\ log_lines' = Box(LogWrite(Unbox(log_lines), Unbox(re.line)))
          /\ re' = [re EXCEPT !.line = None]
          /\ pc' = "re_read"
          /\ UNCHANGED <<console, pending>>
       \/ /\ ExportUnexpected
          /\ UNCHANGED <<re, log_lines>>
    /\ UNCHANGED <<now, sp, spinLine, schemas, selected_schema,
                   config_filename, dump_filename, dump_file, log_file, sel,
                   cf, metadata_files, raised, trace>>

\* process.wait(), then the end-of-log line
RunExportWait ==
    /\ pc = "re_wait"
    /\ \E code \in ExitCodes :
          re' = [re EXCEPT !.returncode = Box(code), !.waited = TRUE,
                           !.process = "exited"]
    /\ console' = Emit(console, "end_of_log", None)
    /\ pc' = "re_classify"
    /\ UNCHANGED <<now, sp, spinLine, pending, schemas, selected_schema,
                   config_filename, dump_filename, dump_file, log_file, sel,
                   cf, metadata_files, log_lines, raised, trace>>

\* the exit-code test accepting every code that is not a signal
ExitedCleanlyNonNegative(returncode) == Unbox(returncode) >= 0

\* process.returncode == 0
ExitedCleanly(returncode) == returncode = Box(0)

\* the test of the return code and the two return statements
RunExportClassify ==
    /\ pc = "re_classify"
    /\ IF ExitedCleanly(re.returncode)
       THEN /\ console' = Emit(console, "export_completed", None)
            /\ pending' = [kind |-> "return",
                           value |-> <<dump_filename, re.log_filename_local>>]
       ELSE /\ console' = Emit(console, "exit_code_error", Unbox(re.returncode))
            /\ pending' = [kind |-> "return", value |-> AbsentPair]
    /\ pc' = "re_finally"
    /\ UNCHANGED <<now, sp, spinLine, schemas, selected_schema,
                   config_filename, dump_filename, dump_file, log_file, sel,
                   cf, re, metadata_files, log_lines, raised, trace>>

\* the finally block, then the return
RunExportFinish ==
    /\ pc = "re_finally"
    /\ console' = Emit(console, "total_export_time", None)
    /\ dump_file' = pending.value[1]
    /\ log_file' = pending.value[2]
    /\ pending' = NoPending
    /\ pc' = "wf_summary"
    /\ UNCHANGED <<now, sp, spinLine, schemas, selected_schema,
                   config_filename, dump_filename, sel, cf, re,
                   metadata_files, log_lines, raised, trace>>

\* ------------------------------------------- run_export_workflow, part 3
\* the summary test looking at the metadata result instead
ExportSucceededTestsConfig(dump, log) == config_filename # None

\* "dump_file and log_file"
ExportSucceeded(dump, log) == dump # None /\ log # None

WorkflowSummary ==
    /\ pc = "wf_summary"
    /\ trace' = Append(trace, "summary")
    /\ IF ExportSucceeded(dump_file, log_file)
       THEN console' = Emit(Emit(console, "export_summary",
                                 <<Unbox(selected_schema), dump_file, log_file,
                                   config_filename>>),
                            "finished_successfully", None)
       ELSE console' = Emit(console, "tool_failed", None)
    /\ pc' = "done"
    /\ UNCHANGED <<now, sp, spinLine, pending, schemas, selected_schema,
                   config_filename, dump_filename, dump_file, log_file, sel,
                   cf, re, metadata_files, log_lines, raised>>

\* -------------------------------------------------------- specification
Next ==
    \/ Tick
    \/ \E s \in SpinnerIds : SpinnerTest(s)
    \/ \E s \in SpinnerIds : SpinnerPrint(s)
    \/ \E s \in SpinnerIds : SpinnerSetVisible(s)
    \/ \E s \in SpinnerIds : SpinnerSleep(s)
    \/ StopSignal
    \/ StopJoin
    \/ GetDbCredentials
    \/ GetSchemasStart
    \/ GetSchemasQuery
    \/ GetSchemasFinish
    \/ WorkflowCheckSchemas
    \/ SelectSchemaMenu
    \/ SelectSchemaInput
    \/ SelectSchemaParse
    \/ CreateStart
    \/ CreateConnect
    \/ CreateQueryUser
    \/ CreateQueryDir
    \/ CreateTimestamp
    \/ CreateNames
    \/ CreateOpen
    \/ CreateWrite
    \/ CreateFinish
    \/ WorkflowCheckConfig
    \/ RunExportStart
    \/ RunExportLaunch
    \/ RunExportOpenLog
    \/ RunExportRead
    \/ RunExportPrintLine
    \/ RunExportWriteLine
    \/ RunExportWait
    \/ RunExportClassify
    \/ RunExportFinish
    \/ WorkflowSummary

Spec == Init /\ [][Next]_vars

\* ============================================================ properties
IsPrefix(a, b) == Len(a) <= Len(b) /\ SubSeq(b, 1, Len(a)) = a

Last(seq) == seq[Len(seq)]

Entered(step) == \E i \in 1..Len(trace) : trace[i] = step

IsExportLine(m) == m.tag = "expdp_line"

\* the export-output lines on the console, in order
ConsoleLines ==
    LET shown == SelectSeq(console, IsExportLine)
    IN  [i \in 1..Len(shown) |-> shown[i].arg]

WorkflowOrder ==
    <<"credentials", "list_schemas", "select", "record_metadata", "export",
      "summary">>

GetSchemasPositions == {"gs_start", "gs_query", "gs_stop", "gs_join", "gs_erase"}

CreatePositions ==
    {"cf_start", "cf_connect", "cf_user", "cf_dir", "cf_stamp", "cf_names",
     "cf_open", "cf_write", "cf_stop", "cf_join", "cf_erase"}

\* get_schemas has returned to the orchestrator
GetSchemasReturned == pc \notin GetSchemasPositions \cup {"wf_start"}

\* create_impdp_details_file has been left, by return or by exception
CreateLeft ==
    /\ Entered("record_metadata")
    /\ pc \notin CreatePositions

\* run_export has been left, by return or by exception
RunExportLeft ==
    /\ Entered("export")
    /\ pc \in {"wf_summary", "done", "crashed"}

\* ---------------------------------------------------------------- C1
\* C1: select_schema returns only on an input that parses as an integer k
\* with 1 <= k <= len(schemas), and then returns schemas[k-1]; every other
\* input prints an error and leads to another prompt without a return
\* value; the returned name is an element of the list.
SelectSchemaContract ==
    /\ [][(pc = "sel_parse" /\ pc' # pc) =>
            LET line == Unbox(sel.line)
                list == Unbox(schemas)
            IN  IF IsInt(line) /\ ParseInt(line) \in 1..Len(list)
                THEN /\ selected_schema' = Box(list[ParseInt(line)])
                     /\ pc' = "cf_start"
                ELSE /\ selected_schema' = None
                     /\ pc' = "sel_input"
                     /\ Len(console') = Len(console) + 1
                     /\ Last(console').tag \in {"invalid_input", "invalid_number"}]_vars
    /\ [][selected_schema' # selected_schema => pc = "sel_parse"]_vars
    /\ [](selected_schema # None =>
            \E i \in 1..Len(Unbox(schemas)) :
                Unbox(schemas)[i] = Unbox(selected_schema))

\* a schema was returned after an earlier input had been rejected
SelectSchemaWitness ==
    /\ selected_schema = Box("OE")
    /\ Printed("invalid_number")

\* ---------------------------------------------------------------- C2
\* C2: once run_export has collected the exit code of the utility it
\* returns (dump_filename, local log path) if and only if the code is 0;
\* for a nonzero code it returns (None, None) and never prints the success
\* message; the code is inspected only after end-of-stream and wait().
ExitCodeContract ==
    /\ (RunExportLeft /\ re.returncode # None) =>
          /\ pc # "crashed"
          /\ IF Unbox(re.returncode) = 0
             THEN /\ dump_file = dump_filename
                  /\ log_file = <<"log", dump_filename[1], dump_filename[2], "log">>
                  /\ Printed("export_completed")
             ELSE /\ dump_file = None
                  /\ log_file = None
                  /\ ~Printed("export_completed")
    /\ (Printed("export_completed") \/ Printed("exit_code_error")) =>
          /\ re.eof
          /\ re.waited
          /\ re.returncode # None
    /\ Printed("export_completed") => re.returncode = Box(0)

ExitCodeWitness ==
    /\ pc = "done"
    /\ re.returncode = Box(1)
    /\ re.nread = MaxOutput
    /\ dump_file = None

\* ---------------------------------------------------------------- C3
\* C3: at every point during and after the streaming loop, on every path,
\* the lines written to the local log mirror equal the export lines on the
\* console; only the line currently between print and write may be pending.
LogMirrorsConsole ==
    IF log_lines = None
    THEN ConsoleLines = <<>>
    ELSE \/ Unbox(log_lines) = ConsoleLines
         \/ /\ pc = "re_write"
            /\ ConsoleLines = Append(Unbox(log_lines), Unbox(re.line))

\* ---------------------------------------------------------------- C4
\* C4: when get_schemas yields None or an empty list the workflow prints
\* "Could not fetch schemas" and ends normally: select_schema,
\* create_impdp_details_file and run_export are never called, and no
\* exception is raised.
EmptySchemasAbort ==
    (GetSchemasReturned /\ (schemas = None \/ Len(Unbox(schemas)) = 0)) =>
        /\ pc \in {"wf_schemas", "done"}
        /\ pc = "done" => Printed("could_not_fetch_schemas")
        /\ trace = <<"credentials", "list_schemas">>
        /\ raised = None
        /\ selected_schema = None
        /\ metadata_files = {}
        /\ re.process = "None"
        /\ sp[2].thread = "None"

EmptySchemasWitness ==
    /\ pc = "done"
    /\ schemas = Box(<<>>)

\* ---------------------------------------------------------------- C5
\* C5: when the DATA_PUMP_DIR lookup returns no row the function prints the
\* directory-not-found error, returns (None, None) and has created no
\* metadata file; a metadata file exists only after both lookups returned
\* a row.
DirectoryMissingContract ==
    /\ cf.dir_fetch = "no_row" =>
          /\ Printed("data_pump_dir_not_found")
          /\ metadata_files = {}
          /\ pc \in {"cf_stop", "cf_join", "cf_erase"} =>
                /\ pending.kind = "return"
                /\ pending.value = AbsentPair
          /\ CreateLeft =>
                /\ pc \in {"wf_config", "done"}
                /\ raised = None
                /\ config_filename = None
                /\ dump_filename = None
    /\ (metadata_files # {} \/ pc \in {"cf_open", "cf_write"}) =>
          /\ cf.user_fetch = "row"
          /\ cf.dir_fetch = "row"

DirectoryMissingWitness ==
    /\ pc = "done"
    /\ cf.dir_fetch = "no_row"

\* ---------------------------------------------------------------- C6
SucceededSummaryPrinted ==
    Printed("export_summary") \/ Printed("finished_successfully")

ExportReasonPrinted ==
    \/ Printed("exit_code_error")
    \/ Printed("expdp_not_found")
    \/ Printed("unexpected_error")

\* the workflow returned at the empty-schema-list test
AbortedAtSchemas == pc = "done" /\ Len(trace) = 2

\* the workflow returned at the absent-metadata test
AbortedAtMetadata == pc = "done" /\ Len(trace) = 4

\* the workflow ended with an absent export result
AbortedAtExport == pc = "done" /\ Len(trace) = 6 /\ dump_file = None

\* what C6 states of the order of the steps and of the succeeded summary
WorkflowIsLinear ==
    /\ IsPrefix(trace, WorkflowOrder)
    /\ Entered("export") => (config_filename # None /\ dump_filename # None)
    /\ SucceededSummaryPrinted =>
          /\ dump_file # None
          /\ log_file # None
          /\ pc = "done"
          /\ \A i \in 1..Len(console) :
                console[i].tag = "export_summary" =>
                    console[i].arg = <<Unbox(selected_schema), dump_filename,
                                       log_file, config_filename>>

\* C6 as stated: the steps occur only in the order credentials, list,
\* select, record metadata, export, summary; the export is launched only
\* after a present metadata result and the succeeded summary printed only
\* after a present export result; each of the three abort points prints a
\* reason and the failed summary and never the succeeded summary.
EveryAbortPrintsFailedSummary ==
    /\ WorkflowIsLinear
    /\ AbortedAtSchemas =>
          /\ Printed("could_not_fetch_schemas")
          /\ Printed("tool_failed")
          /\ ~SucceededSummaryPrinted
    /\ AbortedAtMetadata =>
          /\ Printed("could_not_create_details")
          /\ Printed("tool_failed")
          /\ ~SucceededSummaryPrinted
    /\ AbortedAtExport =>
          /\ ExportReasonPrinted
          /\ Printed("tool_failed")
          /\ ~SucceededSummaryPrinted

\* C6 as amended: the same order and guards; the two early abort points
\* print only their own "Could not ... Exiting." line, and the failed
\* summary "Tool execution failed." is printed exactly when the summary
\* step is reached with an absent export result; nothing is printed or
\* entered once the workflow has ended.
AbortsPrintTheirOwnLine ==
    /\ [](/\ WorkflowIsLinear
          /\ AbortedAtSchemas =>
                /\ Printed("could_not_fetch_schemas")
                /\ ~Printed("tool_failed")
                /\ ~SucceededSummaryPrinted
          /\ AbortedAtMetadata =>
                /\ Printed("could_not_create_details")
                /\ ~Printed("tool_failed")
                /\ ~SucceededSummaryPrinted
          /\ AbortedAtExport =>
                /\ ExportReasonPrinted
                /\ Printed("tool_failed")
                /\ ~SucceededSummaryPrinted
          /\ Printed("tool_failed") => AbortedAtExport
          /\ (pc = "done" /\ ~SucceededSummaryPrinted) =>
                (AbortedAtSchemas \/ AbortedAtMetadata \/ AbortedAtExport))
    /\ [][(pc \in {"done", "crashed"}) =>
            (pc' = pc /\ trace' = trace /\ console' = console)]_vars

AbortAtMetadataWitness ==
    /\ AbortedAtMetadata
    /\ Printed("could_not_create_details")

\* ---------------------------------------------------------------- C7
\* C7: create_impdp_details_file leaves only by returning the pair
\* (metadata filename, dump filename) or (None, None); on no failure,
\* a failure to open or write the metadata file included, does an
\* exception escape to the orchestrator.
CreateNeverRaises ==
    CreateLeft =>
        /\ ~(pc = "crashed" /\ Last(trace) = "record_metadata")
        /\ \/ config_filename = None /\ dump_filename = None
           \/ config_filename # None /\ dump_filename # None

\* ---------------------------------------------------------------- C8
\* C8: one call of create_impdp_details_file reads the clock once; the dump
\* file name (in the dump_file field of the record, returned to the caller
\* and passed to run_export) and the metadata file name embed that same
\* timestamp.
SharedTimestamp ==
    /\ cf.clock_reads <= 1
    /\ cf.config_filename # None =>
          /\ cf.clock_reads = 1
          /\ cf.dump_filename # None
          /\ cf.dump_filename[2] = Unbox(cf.timestamp)
          /\ cf.config_filename[3] = Unbox(cf.timestamp)
          /\ Unbox(cf.impdp_details).dump_file = cf.dump_filename
    /\ \A f \in metadata_files :
          /\ f.name = cf.config_filename
          /\ f.name[3] = f.data.dump_file[2]
    /\ dump_filename # None =>
          /\ dump_filename = cf.dump_filename
          /\ config_filename = cf.config_filename
          /\ config_filename[3] = dump_filename[2]
    /\ \A i \in 1..Len(console) :
          console[i].tag = "generated_command" =>
              /\ console[i].arg = cf.dump_filename
              /\ re.log_filename_expdp[2] = config_filename[3]

\* both names exist and the clock has since moved to another second
SharedTimestampWitness ==
    /\ Printed("generated_command")
    /\ Timestamp(now) # Unbox(cf.timestamp)

\* ---------------------------------------------------------------- C9
\* C9: every call of run_export prints the total elapsed time exactly once
\* before control leaves the function, on every exit path, a failure while
\* preparing the local log directory included.
ElapsedTimeAlwaysPrinted ==
    RunExportLeft => CountPrinted("total_export_time") = 1

\* --------------------------------------------------------------- C10
\* the function owning spinner s has handed control back
SpinnerOwnerLeft(s) ==
    IF s = 1 THEN GetSchemasReturned ELSE CreateLeft

\* stop() of spinner s has come back from thread.join()
StopJoined(s) ==
    IF s = 1 THEN pc \notin {"wf_start", "gs_start", "gs_query", "gs_stop", "gs_join"}
    ELSE Entered("record_metadata") /\ pc \notin (CreatePositions \ {"cf_erase"})

\* C10: at most one spinner thread is alive at any moment; when get_schemas
\* or create_impdp_details_file hands control back (by return or by a
\* propagating exception) its spinner has been signalled and joined; after
\* stop() the thread has terminated and draws no further glyph; the line is
\* erased only if something was drawn.
SpinnerDiscipline ==
    /\ [](/\ Cardinality({s \in SpinnerIds : ThreadAlive(s)}) <= 1
          /\ \A s \in SpinnerIds :
                /\ SpinnerOwnerLeft(s) =>
                      (~sp[s].busy /\ sp[s].thread = "finished")
                /\ StopJoined(s) => sp[s].thread = "finished"
                /\ sp[s].erased => sp[s].drawn)
    /\ [][\A s \in SpinnerIds :
            StopJoined(s) =>
                /\ ~SpinnerPrint(s)
                /\ sp'[s].drawn = sp[s].drawn
                /\ sp'[s].thread = sp[s].thread]_vars

\* the first spinner drew and was erased, the second was stopped before it
\* drew anything, and the exception of a failed open is propagating
SpinnerWitness ==
    /\ pc = "crashed"
    /\ Last(trace) = "record_metadata"
    /\ sp[1].erased
    /\ sp[2].thread = "finished"
    /\ ~sp[2].drawn
    /\ ~sp[2].erased

====
